---- MODULE Spec2Model ----
(***************************************************************************)
(* Model of the nat-lab topology registry (nat-lab/tests/mesh_api.py):     *)
(* the API registry of Node objects, address assignment, per-node firewall *)
(* rules and the compilation of mesh maps.                                 *)
(*                                                                         *)
(* The dict API.nodes is a sequence of entries [key, node] in insertion    *)
(* order, which is the iteration order of a Python dict; node holds the    *)
(* fields of the Node object stored under key.  A dict firewall_rules is a *)
(* function whose domain is the set of its keys.  A Node object that       *)
(* API.remove has deleted from the dict is no longer reachable through the *)
(* API and is not part of the state.                                       *)
(*                                                                         *)
(* The second part models WindowsRouter (utils/router/windows_router.py):  *)
(* the routers built on the connections, the routes and addresses their    *)
(* netsh commands leave on the hosts, and the fault-injection scopes the   *)
(* test holds.  An OS command answers nondeterministically: with success   *)
(* or "already exists" / "not found" as the host state has it, or with an  *)
(* error of the environment.                                               *)
(***************************************************************************)
EXTENDS Integers, Sequences, FiniteSets, TLC

\* ---- bounds ----------------------------------------------------------
\* firewall rules recorded at one time, over all registered nodes.
MaxRules == 2

\* ---- inputs ----------------------------------------------------------
Ids == {"a", "b", "c"}
\* the arguments of register: name, id, private_key, public_key
RegisterArgs ==
    {<<"alpha", "a", "sk-1", "pk-1">>, <<"beta", "b", "sk-2", "pk-2">>,
     <<"gamma", "c", "sk-3", "pk-3">>}
\* the calls of set_peer_firewall_settings: the id of the node called, and
\* the peer id (a rule may name a peer that is not registered)
FirewallPairs == {<<"a", "b">>, <<"b", "a">>, <<"a", "c">>}
\* their flags: allow_incoming_connections, allow_peer_send_files
FirewallFlags == {<<TRUE, FALSE>>, <<FALSE, TRUE>>}
Addresses == {"100.64.0.1", "100.64.0.2"}
\* config.DERP_SERVERS, the default relay list of get_meshmap.
DERP_SERVERS == <<"derp-1">>
DerpArgs == {DERP_SERVERS, <<>>}

VARIABLES
    nodes,  \* API.nodes: sequence of [key, node], in insertion order
    call,   \* the last call made by the test
    ret,    \* its outcome: exception raised (or "none") and value returned
    removed \* history: <<node>> from the call that removed node until a call
            \* other than register or get_meshmap follows it, else << >>

vars == <<nodes, call, ret, removed>>

\* ---- helpers on the dict API.nodes -----------------------------------
Range(s) == {s[i] : i \in 1..Len(s)}

\* the keys of a dict, as a set and in iteration order
Keys(d) == {e.key : e \in Range(d)}
KeySeq(d) == [i \in 1..Len(d) |-> d[i].key]

\* the position of key id in dict d, and d[id]
Pos(d, id) == CHOOSE i \in 1..Len(d) : d[i].key = id
Lookup(d, id) == d[Pos(d, id)].node

\* ---- mesh_api.FirewallRule -------------------------------------------
FirewallRule(allow_incoming_connections, allow_peer_send_files) ==
    [allow_incoming_connections |-> allow_incoming_connections,
     allow_peer_send_files |-> allow_peer_send_files]

\* ---- mesh_api.Node ---------------------------------------------------
\* Node.__init__
Node ==
    [name |-> "", id |-> "", private_key |-> "", public_key |-> "",
     hostname |-> "", ip_addresses |-> <<>>, endpoints |-> <<>>,
     is_local |-> FALSE, allow_connections |-> FALSE, path_type |-> "",
     firewall_rules |-> <<>>]

\* get_firewall_config whose default rule allows incoming connections
get_firewall_config_default_allow(self, node_id) ==
    IF node_id \notin DOMAIN self.firewall_rules
    THEN FirewallRule(TRUE, FALSE)
    ELSE self.firewall_rules[node_id]

\* Node.get_firewall_config, on the Node with fields self
get_firewall_config(self, node_id) ==
    IF node_id \notin DOMAIN self.firewall_rules
    THEN FirewallRule(FALSE, FALSE)
    ELSE self.firewall_rules[node_id]

\* to_peer_config_for_node that reads the rule of the described node for the
\* requester
to_peer_config_for_node_rule_of_self(self, node) ==
    LET firewall_config == get_firewall_config(self, node.id)
    IN  [identifier |-> self.id,
         public_key |-> self.public_key,
         hostname |-> self.hostname,
         ip_addresses |-> self.ip_addresses,
         endpoints |-> self.endpoints,
         is_local |-> self.is_local,
         allow_connections |-> self.allow_connections,
         allow_incoming_connections |-> firewall_config.allow_incoming_connections,
         allow_peer_send_files |-> firewall_config.allow_peer_send_files]

\* Node.to_peer_config_for_node: the entry describing self for the
\* requesting Node node
to_peer_config_for_node(self, node) ==
    LET firewall_config == get_firewall_config(node, self.id)
    IN  [identifier |-> self.id,
         public_key |-> self.public_key,
         hostname |-> self.hostname,
         ip_addresses |-> self.ip_addresses,
         endpoints |-> self.endpoints,
         is_local |-> self.is_local,
         allow_connections |-> self.allow_connections,
         allow_incoming_connections |-> firewall_config.allow_incoming_connections,
         allow_peer_send_files |-> firewall_config.allow_peer_send_files]

\* ---- outcomes ---------------------------------------------------------
Returned(v) == [exc |-> "none", node_id |-> "", value |-> <<v>>]
ReturnedNone == [exc |-> "none", node_id |-> "", value |-> <<>>]
\* NodeError.__init__ keeps the id; KeyError is Python's own exception
Raised(e, id) == [exc |-> e, node_id |-> id, value |-> <<>>]

Init ==
    /\ nodes = <<>>
    /\ call = [op |-> "init"]
    /\ ret = ReturnedNone
    /\ removed = <<>>

\* ---- API.register -----------------------------------------------------
\* the Node that register builds
NewNode(name, id, private_key, public_key) ==
    [Node EXCEPT !.name = name, !.id = id, !.private_key = private_key,
                 !.public_key = public_key, !.hostname = name \o ".nord"]

\* register that brings back the Node that remove has just deleted
register_revives(name, id, private_key, public_key) ==
    /\ call' = [op |-> "register", id |-> id, name |-> name]
    /\ IF id \in Keys(nodes)
       THEN /\ ret' = Raised("DuplicateNodeError", id)
            /\ UNCHANGED nodes
       ELSE LET node == IF removed # <<>> /\ removed[1].id = id
                        THEN removed[1]
                        ELSE NewNode(name, id, private_key, public_key)
            IN  /\ nodes' = Append(nodes, [key |-> id, node |-> node])
                /\ ret' = Returned(node)
    /\ UNCHANGED removed

\* register that stores the new Node whether or not the id is taken
register_overwrites(name, id, private_key, public_key) ==
    /\ call' = [op |-> "register", id |-> id, name |-> name]
    /\ LET node == NewNode(name, id, private_key, public_key)
       IN  /\ nodes' = IF id \in Keys(nodes)
                       THEN [nodes EXCEPT ![Pos(nodes, id)].node = node]
                       ELSE Append(nodes, [key |-> id, node |-> node])
           /\ ret' = Returned(node)
    /\ UNCHANGED removed

register(name, id, private_key, public_key) ==
    /\ call' = [op |-> "register", id |-> id, name |-> name]
    /\ IF id \in Keys(nodes)
       THEN /\ ret' = Raised("DuplicateNodeError", id)
            /\ UNCHANGED nodes
       ELSE LET node == NewNode(name, id, private_key, public_key)
            IN  /\ nodes' = Append(nodes, [key |-> id, node |-> node])
                /\ ret' = Returned(node)
    /\ UNCHANGED removed

\* ---- API.remove -------------------------------------------------------
\* remove that also deletes the rules the other nodes recorded for id
remove_cascades(id) ==
    /\ call' = [op |-> "remove", id |-> id]
    /\ IF id \notin Keys(nodes)
       THEN /\ ret' = Raised("KeyError", id)
            /\ UNCHANGED nodes
       ELSE /\ nodes' =
                 LET rest == SelectSeq(nodes, LAMBDA e : e.key # id)
                 IN  [i \in 1..Len(rest) |->
                        [rest[i] EXCEPT !.node.firewall_rules =
                            [k \in DOMAIN @ \ {id} |-> @[k]]]]
            /\ ret' = ReturnedNone
    /\ removed' = IF id \in Keys(nodes) THEN <<Lookup(nodes, id)>> ELSE <<>>

\* del self.nodes[id]: Python raises KeyError for a key that is not there
remove(id) ==
    /\ call' = [op |-> "remove", id |-> id]
    /\ IF id \notin Keys(nodes)
       THEN /\ ret' = Raised("KeyError", id)
            /\ UNCHANGED nodes
       ELSE /\ nodes' = SelectSeq(nodes, LAMBDA e : e.key # id)
            /\ ret' = ReturnedNone
    /\ removed' = IF id \in Keys(nodes) THEN <<Lookup(nodes, id)>> ELSE <<>>

\* ---- API._get_node ----------------------------------------------------
\* a lookup self.nodes[id] without the membership test of _get_node
get_node_exc_plain_lookup(id) == IF id \notin Keys(nodes) THEN "KeyError" ELSE "none"

\* the exception _get_node raises for id, "none" when it returns the node
get_node_exc(id) == IF id \notin Keys(nodes) THEN "MissingNodeError" ELSE "none"

\* ---- API.assign_ip ----------------------------------------------------
\* the entries of dict d whose node holds address, in iteration order
Holders(d, address) ==
    SelectSeq(d, LAMBDA e : address \in Range(e.node.ip_addresses))

\* assign_ip that looks for the address in the node being configured only
assign_ip_outcome_own_node(d, id, address) ==
    IF id \notin Keys(d)
    THEN Raised("MissingNodeError", id)
    ELSE IF address \in Range(Lookup(d, id).ip_addresses)
    THEN Raised("AddressCollisionError", id)
    ELSE ReturnedNone

\* assign_ip that reports the id it was called with, not the holder's
assign_ip_outcome_reports_caller(d, id, address) ==
    IF Holders(d, address) # <<>>
    THEN Raised("AddressCollisionError", id)
    ELSE IF id \notin Keys(d)
    THEN Raised("MissingNodeError", id)
    ELSE ReturnedNone

\* assign_ip whose scan leaves out the node being configured
assign_ip_outcome_skips_own_node(d, id, address) ==
    IF SelectSeq(Holders(d, address), LAMBDA e : e.key # id) # <<>>
    THEN Raised("AddressCollisionError",
                Head(SelectSeq(Holders(d, address),
                               LAMBDA e : e.key # id)).node.id)
    ELSE IF id \notin Keys(d)
    THEN Raised("MissingNodeError", id)
    ELSE ReturnedNone

\* assign_ip that calls _get_node before it scans the nodes
assign_ip_outcome_get_node_first(d, id, address) ==
    IF id \notin Keys(d)
    THEN Raised("MissingNodeError", id)
    ELSE IF Holders(d, address) # <<>>
    THEN Raised("AddressCollisionError", Head(Holders(d, address)).node.id)
    ELSE ReturnedNone

\* the outcome of assign_ip(id, address) on the registry d: the scan of all
\* nodes comes first, then _get_node
assign_ip_outcome(d, id, address) ==
    IF Holders(d, address) # <<>>
    THEN Raised("AddressCollisionError", Head(Holders(d, address)).node.id)
    ELSE IF id \notin Keys(d)
    THEN Raised("MissingNodeError", id)
    ELSE ReturnedNone

\* assign_ip that appends to the node before it scans for a collision
assign_ip_appends_first(id, address) ==
    /\ call' = [op |-> "assign_ip", id |-> id, address |-> address]
    /\ ret' = assign_ip_outcome(nodes, id, address)
    /\ IF id \notin Keys(nodes)
       THEN UNCHANGED nodes
       ELSE nodes' = [nodes EXCEPT ![Pos(nodes, id)].node.ip_addresses =
                                       Append(@, address)]
    /\ removed' = <<>>

assign_ip(id, address) ==
    /\ call' = [op |-> "assign_ip", id |-> id, address |-> address]
    /\ ret' = assign_ip_outcome(nodes, id, address)
    /\ IF assign_ip_outcome(nodes, id, address).exc # "none"
       THEN UNCHANGED nodes
       ELSE nodes' = [nodes EXCEPT ![Pos(nodes, id)].node.ip_addresses =
                                       Append(@, address)]
    /\ removed' = <<>>

\* ---- API.get_meshmap --------------------------------------------------
\* a peers list that does not leave out the requesting node
Peers_with_self(id) ==
    [i \in 1..Len(nodes) |->
        to_peer_config_for_node(nodes[i].node, Lookup(nodes, id))]

\* a peers list built by inserting every entry at the front
Peers_reversed(id) ==
    LET others == SelectSeq(nodes, LAMBDA e : e.key # id)
    IN  [i \in 1..Len(others) |->
            to_peer_config_for_node(others[Len(others) + 1 - i].node,
                                    Lookup(nodes, id))]

\* a peers list that still lists the node that remove has just deleted
Peers_with_removed(id) ==
    LET others == SelectSeq(nodes, LAMBDA e : e.key # id)
        stale == IF removed # <<>> /\ removed[1].id \notin Keys(nodes) \cup {id}
                 THEN removed ELSE <<>>
    IN  [i \in 1..Len(others) |->
            to_peer_config_for_node(others[i].node, Lookup(nodes, id))]
        \o [i \in 1..Len(stale) |->
            to_peer_config_for_node(stale[i], Lookup(nodes, id))]

\* the peers list: one entry per other key of self.nodes, in iteration order
Peers(id) ==
    LET others == SelectSeq(nodes, LAMBDA e : e.key # id)
    IN  [i \in 1..Len(others) |->
            to_peer_config_for_node(others[i].node, Lookup(nodes, id))]

\* get_meshmap that keeps the derp_servers of the call before it
Meshmap_keeps_derp_servers(id, derp_servers) ==
    LET node == Lookup(nodes, id)
    IN  [identifier |-> node.id,
         public_key |-> node.public_key,
         hostname |-> node.hostname,
         ip_addresses |-> node.ip_addresses,
         endpoints |-> node.endpoints,
         peers |-> Peers(id),
         derp_servers |-> IF call.op = "get_meshmap"
                          THEN call.derp_servers ELSE derp_servers]

\* get_meshmap that keeps its peers list between calls and appends to it
Meshmap_keeps_peers(id, derp_servers) ==
    LET node == Lookup(nodes, id)
        kept == IF call.op = "get_meshmap" /\ ret.exc = "none"
                THEN ret.value[1].peers ELSE <<>>
    IN  [identifier |-> node.id,
         public_key |-> node.public_key,
         hostname |-> node.hostname,
         ip_addresses |-> node.ip_addresses,
         endpoints |-> node.endpoints,
         peers |-> kept \o Peers(id),
         derp_servers |-> derp_servers]

\* the document get_meshmap builds for a registered id
Meshmap(id, derp_servers) ==
    LET node == Lookup(nodes, id)
    IN  [identifier |-> node.id,
         public_key |-> node.public_key,
         hostname |-> node.hostname,
         ip_addresses |-> node.ip_addresses,
         endpoints |-> node.endpoints,
         peers |-> Peers(id),
         derp_servers |-> derp_servers]

\* again: the call before was get_meshmap with the same arguments
get_meshmap(id, derp_servers) ==
    /\ call' = [op |-> "get_meshmap", id |-> id, derp_servers |-> derp_servers,
                again |-> /\ call.op = "get_meshmap"
                          /\ call.id = id
                          /\ call.derp_servers = derp_servers]
    /\ IF get_node_exc(id) # "none"
       THEN ret' = Raised(get_node_exc(id), id)
       ELSE ret' = Returned(Meshmap(id, derp_servers))
    /\ UNCHANGED <<nodes, removed>>

\* ---- Node.set_peer_firewall_settings ----------------------------------
\* the number of rules recorded over all registered nodes
RuleCount(d) ==
    Cardinality({<<i, k>> \in (1..Len(d)) \X Ids :
                    k \in DOMAIN d[i].node.firewall_rules})

\* the record of a set_peer_firewall_settings call; previous is the rule the
\* node held for id before the call, << >> when it held none
SetCall(self, id, allow_incoming_connections, allow_peer_send_files) ==
    [op |-> "set_peer_firewall_settings", self |-> self, id |-> id,
     allow_incoming_connections |-> allow_incoming_connections,
     allow_peer_send_files |-> allow_peer_send_files,
     previous |-> IF id \in DOMAIN Lookup(nodes, self).firewall_rules
                  THEN <<Lookup(nodes, self).firewall_rules[id]>>
                  ELSE <<>>]

\* set_peer_firewall_settings that merges the flags into the rule recorded
\* before instead of replacing it
set_peer_firewall_settings_merges(self, id, allow_incoming_connections, allow_peer_send_files) ==
    /\ self \in Keys(nodes)
    /\ \/ id \in DOMAIN Lookup(nodes, self).firewall_rules
       \/ RuleCount(nodes) < MaxRules
    /\ call' = SetCall(self, id, allow_incoming_connections, allow_peer_send_files)
    /\ LET old == get_firewall_config(Lookup(nodes, self), id)
       IN  nodes' = [nodes EXCEPT ![Pos(nodes, self)].node.firewall_rules =
                       [k \in DOMAIN @ \cup {id} |->
                           IF k = id
                           THEN FirewallRule(
                                  old.allow_incoming_connections
                                      \/ allow_incoming_connections,
                                  old.allow_peer_send_files
                                      \/ allow_peer_send_files)
                           ELSE @[k]]]
    /\ ret' = ReturnedNone
    /\ removed' = <<>>

\* called on the Node registered under key self
set_peer_firewall_settings(self, id, allow_incoming_connections, allow_peer_send_files) ==
    /\ self \in Keys(nodes)
    /\ \/ id \in DOMAIN Lookup(nodes, self).firewall_rules
       \/ RuleCount(nodes) < MaxRules
    /\ call' = SetCall(self, id, allow_incoming_connections, allow_peer_send_files)
    /\ nodes' = [nodes EXCEPT ![Pos(nodes, self)].node.firewall_rules =
                   [k \in DOMAIN @ \cup {id} |->
                       IF k = id
                       THEN FirewallRule(allow_incoming_connections,
                                         allow_peer_send_files)
                       ELSE @[k]]]
    /\ ret' = ReturnedNone
    /\ removed' = <<>>

\* ======================================================================
\* WindowsRouter (nat-lab/tests/utils/router/windows_router.py)
\* ======================================================================
\* the connections the tests build a router on, with the ip_stack they pass
RouterArgs ==
    {<<"conn-1", "IPv4">>, <<"conn-1", "IPv4v6">>, <<"conn-2", "IPv6">>}
Connections == {a[1] : a \in RouterArgs}

\* random.randint(0, 256) returns an integer of 0..256, both ends included;
\* the model draws from the two ends
RandintLow == 0
RandintHigh == 256
Randint == {RandintLow, RandintHigh}

\* config.LIBTELIO_IPV6_WG_SUBNET
LIBTELIO_IPV6_WG_SUBNET == "fd74:656c:696f"

\* the address lists given to setup_interface, and the addresses a fault is
\* injected for
SetupArgs == {<<"100.64.0.1">>, <<"100.64.0.1", "fd74:656c:696f::1">>}
IPv6Literals == {"fd74:656c:696f::1"}
PathAddresses == {"10.0.254.1"}

\* Router.check_ip_address: the family of an address
check_ip_address(address) ==
    IF address \in IPv6Literals THEN "IPv6" ELSE "IPv4"

\* the most fault-injection scopes the test holds at once
MaxScopes == 2

VARIABLES
    routers, \* per connection: << >>, or <<r>> for the WindowsRouter r on it
    host,    \* the routes and addresses configured on the hosts
    scopes,  \* stack of the fault-injection scopes the test holds
    rcall    \* the last router call: commands issued, outcomes, exception

rvars == <<routers, host, scopes, rcall>>

\* ---- the OS command collaborator ---------------------------------------
\* error outputs of netsh: the three the router recognizes and one it does not
ObjectExists == "The object already exists."
ElementNotFound == "Element not found."
BadSyntax ==
    "The filename, directory name, or volume label syntax is incorrect."
AccessDenied == "Access is denied."

\* outcome of execute(): exit status and the lines of stdout; a status other
\* than 0 is raised as ProcessExecError carrying stdout
Ok == [exit |-> 0, stdout |-> <<"Ok.", "">>]
Failed(message) == [exit |-> 1, stdout |-> <<message, "">>]
\* str.find on the output: offset of the first match in lines, -1 if none
find(stdout, sub) ==
    IF \E i \in 1..Len(stdout) : stdout[i] = sub
    THEN (CHOOSE i \in 1..Len(stdout) :
              /\ stdout[i] = sub
              /\ \A j \in 1..(i - 1) : stdout[j] # sub) - 1
    ELSE -1

\* the object a netsh command names on the host behind connection
Object(connection, argv) ==
    [connection |-> connection, family |-> argv[3], kind |-> argv[5],
     interface |-> IF argv[5] = "route" THEN argv[7] ELSE argv[6],
     target |-> IF argv[5] = "route" THEN argv[6] ELSE argv[7]]

\* what a command can answer on a host in state h
Outcomes(h, connection, argv) ==
    IF argv[4] = "add"
    THEN {IF Object(connection, argv) \in h THEN Failed(ObjectExists) ELSE Ok,
          Failed(AccessDenied)}
    ELSE {IF Object(connection, argv) \in h THEN Ok
          ELSE Failed(ElementNotFound),
          Failed(BadSyntax), Failed(AccessDenied)}

\* what a command leaves on the host
Effect(h, connection, argv, out) ==
    IF out.exit # 0 THEN h
    ELSE IF argv[4] = "add" THEN h \cup {Object(connection, argv)}
    ELSE h \ {Object(connection, argv)}

\* ---- running the commands of one operation ------------------------------
\* a command together with the outputs its except clause lets pass
Step(argv, swallowed) == [argv |-> argv, swallowed |-> swallowed]

\* except ProcessExecError: raise unless stdout holds a recognized output
Propagates_always(step, out) == out.exit # 0
Propagates_never(step, out) == FALSE
Propagates(step, out) ==
    /\ out.exit # 0
    /\ \A s \in step.swallowed : find(out.stdout, s) < 0

\* the ways the commands of plan can run on a host in state h, in order: the
\* outcome of each command issued, the host they leave, and the error that
\* leaves the operation, after which no further command is issued
RECURSIVE Runs(_, _, _)
Runs(h, connection, plan) ==
    IF plan = <<>>
    THEN {[host |-> h, results |-> <<>>, raised |-> <<>>]}
    ELSE UNION {
           IF Propagates(Head(plan), out)
           THEN {[host |-> h, results |-> <<out>>, raised |-> <<out>>]}
           ELSE {[host |-> t.host, results |-> <<out>> \o t.results,
                  raised |-> t.raised] :
                    t \in Runs(Effect(h, connection, Head(plan).argv, out),
                               connection, Tail(plan))} :
           out \in Outcomes(h, connection, Head(plan).argv)}

\* a record of the last router call
RCall(op, r, phase, issued, results, thrown, raised) ==
    [op |-> op, r |-> r, phase |-> phase, issued |-> issued,
     results |-> results, thrown |-> thrown, raised |-> raised]

\* an operation that issues the commands of plan in order
Execute(self, op, plan) ==
    \E run \in Runs(host, self.connection, plan) :
        /\ host' = run.host
        /\ rcall' = RCall(op, self.connection, "call",
                          [i \in 1..Len(run.results) |-> plan[i].argv],
                          run.results, <<>>, run.raised)

\* an operation whose body is `pass`
Pass(self, op) ==
    /\ rcall' = RCall(op, self.connection, "call", <<>>, <<>>, <<>>, <<>>)
    /\ UNCHANGED host

InitRouter ==
    /\ routers = [c \in Connections |-> <<>>]
    /\ host = {}
    /\ scopes = <<>>
    /\ rcall = RCall("init", "none", "call", <<>>, <<>>, <<>>, <<>>)

\* ---- WindowsRouter.__init__, get_interface_name -------------------------
WindowsRouter_init(connection, ip_stack, n) ==
    /\ routers[connection] = <<>>
    /\ routers' = [routers EXCEPT ![connection] =
                      <<[connection |-> connection, ip_stack |-> ip_stack,
                         interface_name |-> "wintun10_" \o ToString(n)]>>]
    /\ rcall' = RCall("__init__", connection, "call", <<>>, <<>>, <<>>, <<>>)
    /\ UNCHANGED <<host, scopes>>

get_interface_name(self) == self.interface_name

\* ---- WindowsRouter.setup_interface --------------------------------------
setup_interface_commands(self, addresses) ==
    [i \in 1..Len(addresses) |->
        IF check_ip_address(addresses[i]) = "IPv4"
        THEN Step(<<"netsh", "interface", "ipv4", "add", "address",
                    self.interface_name, addresses[i], "255.255.255.255">>,
                  {})
        ELSE Step(<<"netsh", "interface", "ipv6", "add", "address",
                    self.interface_name, addresses[i] \o "/128">>, {})]

setup_interface(connection, addresses) ==
    /\ routers[connection] # <<>>
    /\ Execute(routers[connection][1], "setup_interface",
               setup_interface_commands(routers[connection][1], addresses))
    /\ UNCHANGED <<routers, scopes>>

\* ---- WindowsRouter.create_meshnet_route ---------------------------------
create_meshnet_route_commands(self) ==
    (IF self.ip_stack \in {"IPv4", "IPv4v6"}
     THEN <<Step(<<"netsh", "interface", "ipv4", "add", "route",
                   "100.64.0.0/10", self.interface_name>>, {ObjectExists})>>
     ELSE <<>>)
    \o
    (IF self.ip_stack \in {"IPv6", "IPv4v6"}
     THEN <<Step(<<"netsh", "interface", "ipv6", "add", "route",
                   LIBTELIO_IPV6_WG_SUBNET \o "::/64", self.interface_name>>,
                 {ObjectExists})>>
     ELSE <<>>)

create_meshnet_route(connection) ==
    /\ routers[connection] # <<>>
    /\ Execute(routers[connection][1], "create_meshnet_route",
               create_meshnet_route_commands(routers[connection][1]))
    /\ UNCHANGED <<routers, scopes>>

\* ---- WindowsRouter.create_vpn_route -------------------------------------
create_vpn_route_commands(self) ==
    <<Step(<<"netsh", "interface", "ipv4", "add", "route", "0.0.0.0/0",
             self.interface_name, "metric=1">>, {ObjectExists}),
      Step(<<"netsh", "interface", "ipv6", "add", "route", "::/0",
             self.interface_name>>, {ObjectExists})>>

create_vpn_route(connection) ==
    /\ routers[connection] # <<>>
    /\ Execute(routers[connection][1], "create_vpn_route",
               create_vpn_route_commands(routers[connection][1]))
    /\ UNCHANGED <<routers, scopes>>

\* ---- WindowsRouter.delete_interface -------------------------------------
delete_interface(connection) ==
    /\ routers[connection] # <<>>
    /\ Pass(routers[connection][1], "delete_interface")
    /\ UNCHANGED <<routers, scopes>>

\* ---- WindowsRouter.delete_vpn_route -------------------------------------
delete_vpn_route_commands(self) ==
    (IF self.ip_stack \in {"IPv4", "IPv4v6"}
     THEN <<Step(<<"netsh", "interface", "ipv4", "delete", "route",
                   "0.0.0.0/0", self.interface_name>>,
                 {BadSyntax, ElementNotFound})>>
     ELSE <<>>)
    \o
    (IF self.ip_stack \in {"IPv6", "IPv4v6"}
     THEN <<Step(<<"netsh", "interface", "ipv6", "delete", "route", "::/0",
                   self.interface_name>>, {BadSyntax, ElementNotFound})>>
     ELSE <<>>)

delete_vpn_route(connection) ==
    /\ routers[connection] # <<>>
    /\ Execute(routers[connection][1], "delete_vpn_route",
               delete_vpn_route_commands(routers[connection][1]))
    /\ UNCHANGED <<routers, scopes>>

\* ---- WindowsRouter.create_exit_node_route, delete_exit_node_route --------
create_exit_node_route(connection) ==
    /\ routers[connection] # <<>>
    /\ Pass(routers[connection][1], "create_exit_node_route")
    /\ UNCHANGED <<routers, scopes>>

delete_exit_node_route(connection) ==
    /\ routers[connection] # <<>>
    /\ Pass(routers[connection][1], "delete_exit_node_route")
    /\ UNCHANGED <<routers, scopes>>

\* ---- the fault-injection scopes ------------------------------------------
\* disable_path, break_tcp_conn_to_host, break_udp_conn_to_host and
\* reset_upnpd are @asynccontextmanager generators whose whole body is
\* `yield`: entering runs the generator to the yield, leaving resumes it there
\* with the exception of the with-body, if any.

\* how the body of a with statement ends, and the exception it ends with
ExitKinds == {"return", "exception", "cancelled"}
BodyException(how) ==
    IF how = "return" THEN <<>>
    ELSE IF how = "exception" THEN <<"Exception">>
    ELSE <<"CancelledError">>

\* the generator resumed at a bare `yield`: nothing catches the exception
\* thrown in, so it leaves the with statement; with none the generator ends
after_yield(thrown) == thrown

\* entering a scope: the code before `yield` (none)
enter_scope(connection, op, args) ==
    /\ routers[connection] # <<>>
    /\ Len(scopes) < MaxScopes
    /\ scopes' = Append(scopes, [r |-> connection, op |-> op, args |-> args,
                                 before |-> host])
    /\ rcall' = RCall(op, connection, "enter", <<>>, <<>>, <<>>, <<>>)
    /\ UNCHANGED <<routers, host>>

\* a variant that installs a blackhole route and never removes it
disable_path_leaves_route(connection, address) ==
    /\ routers[connection] # <<>>
    /\ Len(scopes) < MaxScopes
    /\ scopes' = Append(scopes, [r |-> connection, op |-> "disable_path",
                                 args |-> <<address>>, before |-> host])
    /\ host' = host \cup {[connection |-> connection, family |-> "ipv4",
                           kind |-> "blackhole", interface |-> "none",
                           target |-> address]}
    /\ rcall' = RCall("disable_path", connection, "enter", <<>>, <<>>, <<>>,
                      <<>>)
    /\ UNCHANGED routers
disable_path(connection, address) ==
    enter_scope(connection, "disable_path", <<address>>)

\* a variant that runs a command on entry
break_tcp_conn_to_host_runs_command(connection, address) ==
    /\ routers[connection] # <<>>
    /\ Len(scopes) < MaxScopes
    /\ scopes' = Append(scopes, [r |-> connection,
                                 op |-> "break_tcp_conn_to_host",
                                 args |-> <<address>>, before |-> host])
    /\ rcall' = RCall("break_tcp_conn_to_host", connection, "enter",
                      <<<<"netsh", "advfirewall", "firewall", "add", "rule",
                          address>>>>, <<Ok>>, <<>>, <<>>)
    /\ UNCHANGED <<routers, host>>
break_tcp_conn_to_host(connection, address) ==
    enter_scope(connection, "break_tcp_conn_to_host", <<address>>)

break_udp_conn_to_host(connection, address) ==
    enter_scope(connection, "break_udp_conn_to_host", <<address>>)

reset_upnpd(connection) == enter_scope(connection, "reset_upnpd", <<>>)

\* leaving the innermost scope held: the code after `yield` (none)
exit_scope(how) ==
    /\ scopes # <<>>
    /\ LET top == scopes[Len(scopes)]
       IN  /\ scopes' = SubSeq(scopes, 1, Len(scopes) - 1)
           /\ rcall' = RCall(top.op, top.r, "exit", <<>>, <<>>,
                             BodyException(how),
                             after_yield(BodyException(how)))
    /\ UNCHANGED <<routers, host>>

\* ======================================================================
\* Specifications
\* ======================================================================
\* the start of a test: an empty registry and no router built
\* ---- the documents a test keeps ----------------------------------------
\* get_meshmap and to_peer_config_for_node store node.ip_addresses itself in
\* the dictionary they build, not a copy of it: a document the test keeps
\* shares that list with the Node for as long as the Node is registered.
VARIABLES
    held    \* << >>, or <<h>> for the document h the test has kept

\* a reference to the ip_addresses list of a Node: the list of the Node
\* registered under key, or, once that Node has left API.nodes, a list that
\* only the document reaches
ListOf(key) == [live |-> TRUE, key |-> key, value |-> <<>>]

\* the list a reference leads to, in the registry d
Deref(ref, d) ==
    IF ref.live THEN Lookup(d, ref.key).ip_addresses ELSE ref.value

\* the document get_meshmap(id, derp_servers) hands to its caller: the
\* values of its entries and the lists its ip_addresses entries share
Handed(id, derp_servers) ==
    [document |-> Meshmap(id, derp_servers),
     own |-> ListOf(id),
     peers |-> [i \in 1..Len(Peers(id)) |-> ListOf(Peers(id)[i].identifier)]]

\* what the test reads in the kept document h when the registry is d
Read(h, d) ==
    [h.document EXCEPT
        !.ip_addresses = Deref(h.own, d),
        !.peers = [i \in 1..Len(h.document.peers) |->
                      [h.document.peers[i] EXCEPT
                          !.ip_addresses = Deref(h.peers[i], d)]]]

\* del self.nodes[id] drops the registry's reference to the Node; its list
\* lives on in the documents that share it
Unlink(ref, id, d) ==
    IF ref.live /\ ref.key = id /\ id \in Keys(d)
    THEN [live |-> FALSE, key |-> id, value |-> Lookup(d, id).ip_addresses]
    ELSE ref

\* the test keeps the document get_meshmap returns
keep_meshmap(id, derp_servers) ==
    /\ get_meshmap(id, derp_servers)
    /\ held' = IF get_node_exc(id) # "none" THEN held
               ELSE <<Handed(id, derp_servers)>>

\* remove while a document is kept
remove_kept(id) ==
    /\ remove(id)
    /\ held' = [i \in 1..Len(held) |->
                   [held[i] EXCEPT
                       !.own = Unlink(@, id, nodes),
                       !.peers = [j \in 1..Len(held[i].peers) |->
                                     Unlink(held[i].peers[j], id, nodes)]]]

InitTest == Init /\ InitRouter /\ held = <<>>

\* the registry and the meshmap compiler
Next ==
    \/ \E a \in RegisterArgs :
          register(a[1], a[2], a[3], a[4]) /\ UNCHANGED <<rvars, held>>
    \/ \E id \in Ids : remove(id) /\ UNCHANGED <<rvars, held>>
    \/ \E id \in Ids, address \in Addresses :
          assign_ip(id, address) /\ UNCHANGED <<rvars, held>>
    \/ \E id \in Ids, d \in DerpArgs : get_meshmap(id, d) /\ UNCHANGED <<rvars, held>>
    \/ \E p \in FirewallPairs, f \in FirewallFlags :
          set_peer_firewall_settings(p[1], p[2], f[1], f[2])
             /\ UNCHANGED <<rvars, held>>

Spec == InitTest /\ [][Next]_<<vars, rvars, held>>

\* the routers' interface and routes
NextRouter ==
    \/ \E a \in RouterArgs, n \in Randint :
          WindowsRouter_init(a[1], a[2], n) /\ UNCHANGED <<vars, held>>
    \/ \E c \in Connections, addresses \in SetupArgs :
          setup_interface(c, addresses) /\ UNCHANGED <<vars, held>>
    \/ \E c \in Connections : create_meshnet_route(c) /\ UNCHANGED <<vars, held>>
    \/ \E c \in Connections : create_vpn_route(c) /\ UNCHANGED <<vars, held>>
    \/ \E c \in Connections : delete_interface(c) /\ UNCHANGED <<vars, held>>
    \/ \E c \in Connections : delete_vpn_route(c) /\ UNCHANGED <<vars, held>>
    \/ \E c \in Connections : create_exit_node_route(c) /\ UNCHANGED <<vars, held>>
    \/ \E c \in Connections : delete_exit_node_route(c) /\ UNCHANGED <<vars, held>>

SpecRouter == InitTest /\ [][NextRouter]_<<vars, rvars, held>>

\* fault injection on routers with or without a VPN route; as in the tests,
\* the body of a scope makes no router call
NextFault ==
    \/ \E a \in RouterArgs, n \in Randint :
          WindowsRouter_init(a[1], a[2], n) /\ UNCHANGED <<vars, held>>
    \/ \E c \in Connections :
          scopes = <<>> /\ create_vpn_route(c) /\ UNCHANGED <<vars, held>>
    \/ \E c \in Connections, address \in PathAddresses :
          disable_path(c, address) /\ UNCHANGED <<vars, held>>
    \/ \E c \in Connections, address \in PathAddresses :
          break_tcp_conn_to_host(c, address) /\ UNCHANGED <<vars, held>>
    \/ \E c \in Connections, address \in PathAddresses :
          break_udp_conn_to_host(c, address) /\ UNCHANGED <<vars, held>>
    \/ \E c \in Connections : reset_upnpd(c) /\ UNCHANGED <<vars, held>>
    \/ \E how \in ExitKinds : exit_scope(how) /\ UNCHANGED <<vars, held>>

SpecFault == InitTest /\ [][NextFault]_<<vars, rvars, held>>

\* the scenarios in which the test keeps a compiled document: two nodes, one
\* address, the rule of one node for the other, the default derp_servers
KeptIds == {"a", "b"}
KeptAddresses == {"100.64.0.1"}
KeptPairs == {<<"a", "b">>}

\* the registry while the test keeps a compiled document
NextDocument ==
    \/ \E a \in {x \in RegisterArgs : x[2] \in KeptIds} :
          register(a[1], a[2], a[3], a[4]) /\ UNCHANGED <<rvars, held>>
    \/ \E id \in KeptIds : remove_kept(id) /\ UNCHANGED rvars
    \/ \E id \in KeptIds, address \in KeptAddresses :
          assign_ip(id, address) /\ UNCHANGED <<rvars, held>>
    \/ \E id \in KeptIds : keep_meshmap(id, DERP_SERVERS) /\ UNCHANGED rvars
    \/ \E p \in KeptPairs, f \in FirewallFlags :
          set_peer_firewall_settings(p[1], p[2], f[1], f[2])
             /\ UNCHANGED <<rvars, held>>

SpecDocument == InitTest /\ [][NextDocument]_<<vars, rvars, held>>

\* ======================================================================
\* Properties
\* ======================================================================
\* the last call was get_meshmap and returned the document Doc
GotMeshmap == call.op = "get_meshmap" /\ ret.exc = "none"
Doc == ret.value[1]
PeerIds(doc) == [i \in 1..Len(doc.peers) |-> doc.peers[i].identifier]
HoldsAddress(d, id, address) ==
    id \in Keys(d) /\ address \in Range(Lookup(d, id).ip_addresses)

\* C1: in every reachable state no address is in the ip_addresses of two
\* different registered nodes.
C1_NoSharedAddress ==
    \A i, j \in 1..Len(nodes) :
        i # j => Range(nodes[i].node.ip_addresses)
                    \cap Range(nodes[j].node.ip_addresses) = {}

\* two registered nodes hold an address each and an assign_ip for a
\* registered node has just been refused because another node holds the address
C1_Witness ==
    /\ call.op = "assign_ip"
    /\ ret.exc = "AddressCollisionError"
    /\ call.id \in Keys(nodes)
    /\ ret.node_id # call.id
    /\ \E i, j \in 1..Len(nodes) :
          /\ i # j
          /\ nodes[i].node.ip_addresses # <<>>
          /\ nodes[j].node.ip_addresses # <<>>

\* C2 as stated: once A holds X by a successful assign_ip, assign_ip(B, X)
\* for every B other than A fails with AddressCollisionError(A) after any
\* further registry operation.
C2_Original ==
    [][\A A \in Ids, X \in Addresses :
          HoldsAddress(nodes, A, X) =>
              \A B \in Ids \ {A} :
                  assign_ip_outcome(nodes', B, X)
                      = Raised("AddressCollisionError", A)]_vars

\* C2 amended: every assign_ip(B, X) made while a node A other than B is
\* registered and holds X fails with AddressCollisionError whose node_id is
\* A's id, and changes nothing, whether or not B is registered.
C2_CollisionWhileHeld ==
    [][call'.op = "assign_ip" =>
          \A A \in Ids \ {call'.id} :
              HoldsAddress(nodes, A, call'.address)
              => /\ ret'.exc = "AddressCollisionError"
                 /\ ret'.node_id = A
                 /\ nodes' = nodes]_vars

\* assign_ip for a node B has been refused with the id of the holder A
C2_Witness ==
    /\ call.op = "assign_ip"
    /\ ret.exc = "AddressCollisionError"
    /\ ret.node_id # call.id
    /\ HoldsAddress(nodes, ret.node_id, call.address)

\* the flags a node records for a peer id, default-deny when it records none
Allows(n, peer_id) ==
    IF peer_id \in DOMAIN n.firewall_rules
    THEN <<n.firewall_rules[peer_id].allow_incoming_connections,
           n.firewall_rules[peer_id].allow_peer_send_files>>
    ELSE <<FALSE, FALSE>>
EntryFlags(e) == <<e.allow_incoming_connections, e.allow_peer_send_files>>

C4_DuplicateIffPresent ==
    [][/\ call'.op = "register" =>
            IF call'.id \in Keys(nodes)
            THEN ret' = Raised("DuplicateNodeError", call'.id) /\ nodes' = nodes
            ELSE ret'.exc = "none" /\ call'.id \in Keys(nodes')
       /\ \A id \in Keys(nodes') \ Keys(nodes) :
            call'.op = "register" /\ call'.id = id /\ ret'.exc = "none"]_vars

\* a register call has been refused for an id that is registered
C4_Witness ==
    /\ call.op = "register"
    /\ ret.exc = "DuplicateNodeError"
    /\ ret.node_id = call.id
    /\ call.id \in Keys(nodes)

\* C5: the peers of get_meshmap(n) have no entry for n and exactly one entry
\* for every other registered node.
C5_PeersAreTheOthers ==
    GotMeshmap =>
        /\ \A i \in 1..Len(Doc.peers) : Doc.peers[i].identifier # call.id
        /\ \A k \in Keys(nodes) \ {call.id} :
              Cardinality({i \in 1..Len(Doc.peers) :
                              Doc.peers[i].identifier = k}) = 1
        /\ Len(Doc.peers) = Cardinality(Keys(nodes)) - 1

\* a document with two peers has been returned
C5_Witness == GotMeshmap /\ Len(Doc.peers) = 2 /\ Len(nodes) = 3

\* C6: the peers of get_meshmap(n) are in the order of the registry, which
\* is the order of insertion: register puts the new id last (also an id that
\* was removed before), remove and the other calls keep the order of the
\* remaining ids; a repeated get_meshmap(n) returns the same order.
C6_InsertionOrder ==
    /\ [](GotMeshmap =>
            \A i, j \in 1..Len(Doc.peers) :
                i < j => Pos(nodes, Doc.peers[i].identifier)
                            < Pos(nodes, Doc.peers[j].identifier))
    /\ [][/\ KeySeq(nodes') =
                IF call'.op = "register" /\ ret'.exc = "none"
                THEN Append(KeySeq(nodes), call'.id)
                ELSE IF call'.op = "remove" /\ ret'.exc = "none"
                THEN SelectSeq(KeySeq(nodes), LAMBDA k : k # call'.id)
                ELSE KeySeq(nodes)
          /\ (call'.op = "get_meshmap" /\ call'.again /\ ret.exc = "none")
                => /\ ret'.exc = "none"
                   /\ PeerIds(ret'.value[1]) = PeerIds(ret.value[1])]_vars

\* a node that was removed and registered again is listed after a node
\* that stayed registered
C6_Witness ==
    /\ GotMeshmap
    /\ removed # <<>>
    /\ Len(Doc.peers) = 2
    /\ Doc.peers[2].identifier = removed[1].id

\* C7: a get_meshmap call that repeats the call before it, with the same id
\* and the same derp_servers, returns a document equal to the one before.
C7_RepeatedCallSameDocument ==
    [][(call'.op = "get_meshmap" /\ call'.again /\ ret.exc = "none")
          => ret' = ret]_vars

\* get_meshmap has been called twice in a row for a node with peers and
\* addresses
C7_Witness ==
    /\ GotMeshmap
    /\ call.again
    /\ Doc.peers # <<>>
    /\ Doc.ip_addresses # <<>>

\* C8: the document of get_meshmap(n) has the identity, hostname, addresses
\* and endpoints that the registry holds for n at the time of the call, its
\* peers are the other nodes registered at that time, with their current
\* addresses, and the flags are n's current rules.
C8_ReflectsRegistry ==
    GotMeshmap =>
        LET n == Lookup(nodes, call.id)
        IN  /\ Doc.identifier = call.id
            /\ Doc.public_key = n.public_key
            /\ Doc.hostname = n.name \o ".nord"
            /\ Doc.ip_addresses = n.ip_addresses
            /\ Doc.endpoints = n.endpoints
            /\ Range(PeerIds(Doc)) = Keys(nodes) \ {call.id}
            /\ \A i \in 1..Len(Doc.peers) :
                  LET e == Doc.peers[i]
                      p == Lookup(nodes, e.identifier)
                  IN  /\ e.public_key = p.public_key
                      /\ e.hostname = p.name \o ".nord"
                      /\ e.ip_addresses = p.ip_addresses
                      /\ e.endpoints = p.endpoints
                      /\ EntryFlags(e) = Allows(n, e.identifier)

\* a document compiled after a removal: the removed node is not a peer, and
\* the peers listed hold addresses
C8_Witness ==
    /\ GotMeshmap
    /\ removed # <<>>
    /\ removed[1].id \notin Keys(nodes)
    /\ Doc.peers # <<>>
    /\ \A i \in 1..Len(Doc.peers) : Doc.peers[i].ip_addresses # <<>>

\* C9: register of an id that is not in the registry, in particular of an id
\* that remove has deleted, succeeds, and the node it stores and returns has
\* empty ip_addresses, endpoints and firewall_rules.
C9_FreshAfterRemove ==
    [][(call'.op = "register" /\ call'.id \notin Keys(nodes))
          => /\ ret'.exc = "none"
             /\ call'.id \in Keys(nodes')
             /\ ret'.value[1] = Lookup(nodes', call'.id)
             /\ Lookup(nodes', call'.id).ip_addresses = <<>>
             /\ Lookup(nodes', call'.id).endpoints = <<>>
             /\ DOMAIN Lookup(nodes', call'.id).firewall_rules = {}]_vars

\* an id has been registered again after the node removed under that id held
\* an address and a rule
C9_Witness ==
    /\ call.op = "register"
    /\ ret.exc = "none"
    /\ removed # <<>>
    /\ removed[1].id = call.id
    /\ removed[1].ip_addresses # <<>>
    /\ DOMAIN removed[1].firewall_rules # {}
    /\ Lookup(nodes, call.id).ip_addresses = <<>>

\* C10 as stated: remove of an id that is not in the registry raises
\* MissingNodeError carrying the id and leaves the registry unchanged.
C10_Claim ==
    [][(call'.op = "remove" /\ call'.id \notin Keys(nodes))
          => /\ ret' = Raised("MissingNodeError", call'.id)
             /\ nodes' = nodes]_vars

\* C11: remove(id), and a later register of id, change no other node: every
\* other node keeps its fields, its firewall_rules with the rules keyed by
\* id among them, and get_firewall_config(id) on it returns what it returned
\* before.
C11_RemoveLeavesOthers ==
    [][(call'.op \in {"remove", "register"} /\ ret'.exc = "none") =>
          /\ call'.op = "remove" => Keys(nodes') = Keys(nodes) \ {call'.id}
          /\ \A k \in Keys(nodes) \ {call'.id} :
                /\ k \in Keys(nodes')
                /\ Lookup(nodes', k) = Lookup(nodes, k)
                /\ get_firewall_config(Lookup(nodes', k), call'.id)
                      = get_firewall_config(Lookup(nodes, k), call'.id)]_vars

\* an id has been removed and registered again while another node records a
\* rule that allows it to connect
C11_Witness ==
    /\ call.op = "register"
    /\ ret.exc = "none"
    /\ removed # <<>>
    /\ removed[1].id = call.id
    /\ \E e \in Range(nodes) :
          /\ e.key # call.id
          /\ call.id \in DOMAIN e.node.firewall_rules
          /\ get_firewall_config(e.node, call.id).allow_incoming_connections

\* C12: get_meshmap of an id that is not in the registry raises
\* MissingNodeError carrying the id, returns no document and leaves the
\* registry unchanged.
C12_MeshmapOfMissingNode ==
    [][(call'.op = "get_meshmap" /\ call'.id \notin Keys(nodes))
          => /\ ret' = Raised("MissingNodeError", call'.id)
             /\ nodes' = nodes]_vars

\* get_meshmap has been refused for an id missing from a registry that holds
\* other nodes
C12_Witness ==
    /\ call.op = "get_meshmap"
    /\ ret.exc = "MissingNodeError"
    /\ ret.node_id = call.id
    /\ ret.value = <<>>
    /\ nodes # <<>>

\* C13: after set_peer_firewall_settings(peer_id, a, b) on a node,
\* get_firewall_config(peer_id) on it is exactly (a, b) whatever rule it held
\* before, its rules for the other ids and the other nodes are unchanged;
\* peer_id need not be registered.
C13_RuleReplaced ==
    [][call'.op = "set_peer_firewall_settings" =>
          LET before == Lookup(nodes, call'.self)
              after == Lookup(nodes', call'.self)
          IN  /\ get_firewall_config(after, call'.id)
                    = FirewallRule(call'.allow_incoming_connections,
                                   call'.allow_peer_send_files)
              /\ \A k \in Ids \ {call'.id} :
                    /\ k \in DOMAIN after.firewall_rules
                          <=> k \in DOMAIN before.firewall_rules
                    /\ get_firewall_config(after, k)
                          = get_firewall_config(before, k)
              /\ Keys(nodes') = Keys(nodes)
              /\ \A k \in Keys(nodes) \ {call'.self} :
                    Lookup(nodes', k) = Lookup(nodes, k)]_vars

\* a rule for an id that is not registered has been replaced by a rule with
\* other flags, on a node that records a rule for another id too
C13_Witness ==
    /\ call.op = "set_peer_firewall_settings"
    /\ call.previous # <<>>
    /\ call.previous[1] # FirewallRule(call.allow_incoming_connections,
                                      call.allow_peer_send_files)
    /\ call.id \notin Keys(nodes)
    /\ DOMAIN Lookup(nodes, call.self).firewall_rules \ {call.id} # {}

\* C14: get_firewall_config(peer_id) on a node that records no rule for
\* peer_id is default-deny (false, false), and so are the flags of the peer
\* entries compiled for that node; a node records a rule for an id only by a
\* set_peer_firewall_settings call on it for that id.
C14_DefaultDeny ==
    /\ [](/\ \A i \in 1..Len(nodes), k \in Ids :
                k \notin DOMAIN nodes[i].node.firewall_rules
                => get_firewall_config(nodes[i].node, k)
                      = FirewallRule(FALSE, FALSE)
          /\ GotMeshmap =>
                \A i \in 1..Len(Doc.peers) :
                    Doc.peers[i].identifier
                        \notin DOMAIN Lookup(nodes, call.id).firewall_rules
                    => EntryFlags(Doc.peers[i]) = <<FALSE, FALSE>>)
    /\ [][\A i \in 1..Len(nodes') :
            \A k \in DOMAIN nodes'[i].node.firewall_rules :
                \/ /\ nodes'[i].key \in Keys(nodes)
                   /\ k \in DOMAIN Lookup(nodes, nodes'[i].key).firewall_rules
                \/ /\ call'.op = "set_peer_firewall_settings"
                   /\ call'.self = nodes'[i].key
                   /\ call'.id = k]_vars

\* get_meshmap(b) shows a with default-deny flags: b records no rule for a,
\* while a records a rule for b
C14_Witness ==
    /\ GotMeshmap
    /\ call.id = "b"
    /\ "a" \in Keys(nodes)
    /\ "a" \notin DOMAIN Lookup(nodes, "b").firewall_rules
    /\ "b" \in DOMAIN Lookup(nodes, "a").firewall_rules
    /\ \E i \in 1..Len(Doc.peers) :
          /\ Doc.peers[i].identifier = "a"
          /\ EntryFlags(Doc.peers[i]) = <<FALSE, FALSE>>

\* C15: the derp_servers of the document of get_meshmap(id, d) is the d of
\* that call, the empty list included, whatever the call before was.
C15_DerpServersOfTheCall ==
    GotMeshmap => Doc.derp_servers = call.derp_servers

\* get_meshmap has returned an empty relay list for derp_servers = []
C15_Witness ==
    /\ GotMeshmap
    /\ call.derp_servers = <<>>
    /\ Doc.derp_servers = <<>>
    /\ Doc.peers # <<>>

\* ---- WindowsRouter -----------------------------------------------------
\* the address families of an ip_stack, as netsh names them
Families(ip_stack) ==
    IF ip_stack = "IPv4" THEN {"ipv4"}
    ELSE IF ip_stack = "IPv6" THEN {"ipv6"}
    ELSE {"ipv4", "ipv6"}

\* the families of the commands the last router call issued
IssuedFamilies(c) == {c.issued[i][3] : i \in 1..Len(c.issued)}

\* C16: leaving a disable_path scope, by return, by an exception of the body
\* or by its cancellation, leaves the routers and the routes and addresses of
\* the hosts exactly as they were when the scope was entered.
C16_DisablePathRestores ==
    [][(/\ rcall'.op = "disable_path"
        /\ rcall'.phase = "exit"
        /\ scopes # <<>>)
          => /\ host' = scopes[Len(scopes)].before
             /\ routers' = routers]_<<vars, rvars>>

\* a disable_path scope has been left by an exception while routes are
\* installed
C16_Witness ==
    /\ rcall.op = "disable_path"
    /\ rcall.phase = "exit"
    /\ rcall.thrown = <<"Exception">>
    /\ \E o \in host : o.connection = rcall.r /\ o.kind = "route"

\* traffic toward address is black-holed on the host behind connection
Blackholed(connection, address) ==
    \E o \in host :
        /\ o.connection = connection
        /\ o.kind = "blackhole"
        /\ o.target = address

\* C17: while a disable_path(address) scope is held on a router, traffic
\* toward address is black-holed on that router's host.
C17_Claim ==
    \A i \in 1..Len(scopes) :
        scopes[i].op = "disable_path"
        => Blackholed(scopes[i].r, scopes[i].args[1])

\* C18: create_meshnet_route and create_vpn_route do not raise when the only
\* failures of their commands say "The object already exists.", nor
\* delete_vpn_route when they say "Element not found."; a command is then
\* issued for every address family of the router's ip_stack.
C18_RecognizedErrorsSwallowed ==
    [][rcall'.op \in {"create_meshnet_route", "create_vpn_route",
                      "delete_vpn_route"} =>
          LET recognized == IF rcall'.op = "delete_vpn_route"
                            THEN ElementNotFound ELSE ObjectExists
          IN  (\A i \in 1..Len(rcall'.results) :
                  rcall'.results[i].exit # 0
                  => find(rcall'.results[i].stdout, recognized) >= 0)
              => /\ rcall'.raised = <<>>
                 /\ Families(routers[rcall'.r][1].ip_stack)
                       \subseteq IssuedFamilies(rcall')]_<<vars, rvars>>

\* create_vpn_route has met "The object already exists." for the IPv4 route,
\* has gone on to the IPv6 route and has returned
C18_Witness ==
    /\ rcall.op = "create_vpn_route"
    /\ Len(rcall.results) = 2
    /\ rcall.results[1].exit # 0
    /\ find(rcall.results[1].stdout, ObjectExists) >= 0
    /\ rcall.issued[2][3] = "ipv6"
    /\ rcall.raised = <<>>

\* C19: two WindowsRouter instances never have the same interface name.
C19_Claim ==
    \A c1, c2 \in Connections :
        (c1 # c2 /\ routers[c1] # <<>> /\ routers[c2] # <<>>)
        => get_interface_name(routers[c1][1])
              # get_interface_name(routers[c2][1])

\* the scopes that inject no fault on Windows
NoOpScopes == {"break_tcp_conn_to_host", "break_udp_conn_to_host",
               "reset_upnpd"}

\* C20: entering and leaving break_tcp_conn_to_host, break_udp_conn_to_host
\* and reset_upnpd issues no command and changes neither a router nor a
\* host; entering puts the scope on top of those held, leaving takes the
\* innermost one off, and the exception of the body is the exception that
\* leaves the scope.
C20_NoOpScopes ==
    [][rcall'.op \in NoOpScopes =>
          /\ rcall'.issued = <<>>
          /\ host' = host
          /\ routers' = routers
          /\ rcall'.phase = "enter" =>
                /\ Len(scopes') = Len(scopes) + 1
                /\ SubSeq(scopes', 1, Len(scopes)) = scopes
                /\ scopes'[Len(scopes')].op = rcall'.op
                /\ scopes'[Len(scopes')].r = rcall'.r
          /\ rcall'.phase = "exit" =>
                /\ scopes # <<>>
                /\ scopes' = SubSeq(scopes, 1, Len(scopes) - 1)
                /\ scopes[Len(scopes)].op = rcall'.op
                /\ scopes[Len(scopes)].r = rcall'.r
                /\ rcall'.raised = rcall'.thrown]_<<vars, rvars>>

\* of two scopes held on different routers the inner one has been left by an
\* exception, which has reached the caller
C20_Witness ==
    /\ rcall.op = "break_tcp_conn_to_host"
    /\ rcall.phase = "exit"
    /\ rcall.thrown = <<"Exception">>
    /\ rcall.raised = rcall.thrown
    /\ Len(scopes) = 1
    /\ scopes[1].op \in NoOpScopes
    /\ scopes[1].r # rcall.r

\* ---- API.assign_ip, again ------------------------------------------------
\* C21 as stated: assign_ip(id, address) for a node that holds address itself
\* succeeds and appends address once more.
C21_Original ==
    [][(/\ call'.op = "assign_ip"
        /\ call'.id \in Keys(nodes)
        /\ HoldsAddress(nodes, call'.id, call'.address))
          => /\ ret'.exc = "none"
             /\ Lookup(nodes', call'.id).ip_addresses
                   = Append(Lookup(nodes, call'.id).ip_addresses,
                            call'.address)]_vars

\* C21 amended: assign_ip(id, address) for a node that holds address itself
\* raises AddressCollisionError carrying the node's own id and leaves the
\* registry unchanged, so that no ip_addresses list has a repeated entry.
C21_SelfAssignmentCollides ==
    [][(/\ call'.op = "assign_ip"
        /\ call'.id \in Keys(nodes)
        /\ HoldsAddress(nodes, call'.id, call'.address))
          => /\ ret' = Raised("AddressCollisionError", call'.id)
             /\ nodes' = nodes
             /\ \A i \in 1..Len(nodes') :
                   \A j, k \in 1..Len(nodes'[i].node.ip_addresses) :
                       nodes'[i].node.ip_addresses[j]
                          = nodes'[i].node.ip_addresses[k] => j = k]_vars

\* a node has been refused an address it holds itself
C21_Witness ==
    /\ call.op = "assign_ip"
    /\ ret = Raised("AddressCollisionError", call.id)
    /\ call.id \in Keys(nodes)
    /\ HoldsAddress(nodes, call.id, call.address)

\* C22 as stated: assign_ip(id, address) raises MissingNodeError whenever id
\* is not in the registry, also when a registered node holds address.
C22_Original ==
    [][(call'.op = "assign_ip" /\ call'.id \notin Keys(nodes))
          => ret' = Raised("MissingNodeError", call'.id)]_vars

\* C22 amended: for an id that is not in the registry assign_ip raises
\* MissingNodeError when no registered node holds address and
\* AddressCollisionError carrying the holder's id when one does, the registry
\* unchanged in both cases; for a registered id and a free address it appends
\* address as the last element of that node's ip_addresses and changes
\* nothing else.
C22_ScanBeforeLookup ==
    [][call'.op = "assign_ip" =>
          /\ (call'.id \notin Keys(nodes)
                /\ Holders(nodes, call'.address) = <<>>)
                => /\ ret' = Raised("MissingNodeError", call'.id)
                   /\ nodes' = nodes
          /\ (call'.id \notin Keys(nodes)
                /\ Holders(nodes, call'.address) # <<>>)
                => /\ ret'.exc = "AddressCollisionError"
                   /\ HoldsAddress(nodes, ret'.node_id, call'.address)
                   /\ nodes' = nodes
          /\ (call'.id \in Keys(nodes)
                /\ Holders(nodes, call'.address) = <<>>)
                => /\ ret' = ReturnedNone
                   /\ KeySeq(nodes') = KeySeq(nodes)
                   /\ \A k \in Keys(nodes) \ {call'.id} :
                         Lookup(nodes', k) = Lookup(nodes, k)
                   /\ Lookup(nodes', call'.id)
                         = [Lookup(nodes, call'.id) EXCEPT
                               !.ip_addresses = Append(@, call'.address)]
                   /\ LET l == Lookup(nodes', call'.id).ip_addresses
                      IN  l[Len(l)] = call'.address]_vars

\* assign_ip for an id that is not registered has met an address that a
\* registered node holds
C22_Witness ==
    /\ call.op = "assign_ip"
    /\ call.id \notin Keys(nodes)
    /\ ret.exc = "AddressCollisionError"
    /\ ret.node_id \in Keys(nodes)

\* the outputs the except clauses of a router operation let pass
Recognized(op) ==
    IF op = "delete_vpn_route" THEN {ElementNotFound, BadSyntax}
    ELSE IF op = "setup_interface" THEN {}
    ELSE {ObjectExists}

\* the operations of a router that run commands on the host
CommandOps == {"setup_interface", "create_meshnet_route", "create_vpn_route",
               "delete_vpn_route"}

\* C23 as stated: a command of setup_interface, create_meshnet_route,
\* create_vpn_route or delete_vpn_route that fails with an output other than
\* "The object already exists." (set-up) or "Element not found." (tear-down)
\* raises its ProcessExecError to the caller.
C23_Original ==
    [][rcall'.op \in CommandOps =>
          LET idempotent == IF rcall'.op = "delete_vpn_route"
                            THEN ElementNotFound ELSE ObjectExists
          IN  \A i \in 1..Len(rcall'.results) :
                  (/\ rcall'.results[i].exit # 0
                   /\ find(rcall'.results[i].stdout, idempotent) < 0)
                  => rcall'.raised = <<rcall'.results[i]>>]_<<vars, rvars>>

\* C23: a failing command of setup_interface, create_meshnet_route,
\* create_vpn_route or delete_vpn_route raises its ProcessExecError to the
\* caller, and ends the operation, unless its output holds "The object
\* already exists." in a create operation, or "Element not found." or "The
\* filename, directory name, or volume label syntax is incorrect." in
\* delete_vpn_route; setup_interface lets no output pass.
C23_OnlyRecognizedSwallowed ==
    [][rcall'.op \in CommandOps =>
          \A i \in 1..Len(rcall'.results) :
              (/\ rcall'.results[i].exit # 0
               /\ \A s \in Recognized(rcall'.op) :
                      find(rcall'.results[i].stdout, s) < 0)
              => /\ rcall'.raised = <<rcall'.results[i]>>
                 /\ i = Len(rcall'.results)]_<<vars, rvars>>

\* delete_vpn_route has let "Element not found." pass for the IPv4 route and
\* raised "Access is denied." of the IPv6 route
C23_Witness ==
    /\ rcall.op = "delete_vpn_route"
    /\ Len(rcall.results) = 2
    /\ find(rcall.results[1].stdout, ElementNotFound) >= 0
    /\ find(rcall.results[2].stdout, AccessDenied) >= 0
    /\ rcall.raised = <<rcall.results[2]>>

\* C24 as stated: create_meshnet_route and create_vpn_route issue commands
\* only for the families the router's ip_stack enables.
C24_Claim ==
    [][rcall'.op \in {"create_meshnet_route", "create_vpn_route"} =>
          IssuedFamilies(rcall')
             \subseteq Families(routers[rcall'.r][1].ip_stack)]_<<vars, rvars>>

\* the default routes on the interface of the router behind connection
DefaultRoutes(h, connection) ==
    {o \in h : /\ o.connection = connection
               /\ o.kind = "route"
               /\ o.interface = get_interface_name(routers[connection][1])
               /\ o.target \in {"0.0.0.0/0", "::/0"}}

\* every command of the call c was answered with exit status 0
AllOk(c) == \A i \in 1..Len(c.results) : c.results[i].exit = 0

\* C25 as stated: a create_vpn_route that returns, followed on the same
\* router by a delete_vpn_route whose commands all succeed, leaves no default
\* route on the router's interface.
C25_Claim ==
    [][(/\ rcall.op = "create_vpn_route"
        /\ rcall.raised = <<>>
        /\ rcall'.op = "delete_vpn_route"
        /\ rcall'.r = rcall.r
        /\ rcall'.raised = <<>>
        /\ AllOk(rcall'))
          => DefaultRoutes(host', rcall'.r) = {}]_<<vars, rvars>>

\* the addresses on the interface of the router behind connection
InterfaceAddresses(h, connection) ==
    {o \in h : /\ o.connection = connection
               /\ o.kind = "address"
               /\ o.interface = get_interface_name(routers[connection][1])}

\* C26 as stated: a setup_interface whose commands all succeed, followed on
\* the same router by delete_interface, leaves no address on the router's
\* interface.
C26_Claim ==
    [][(/\ rcall.op = "setup_interface"
        /\ rcall.raised = <<>>
        /\ AllOk(rcall)
        /\ rcall'.op = "delete_interface"
        /\ rcall'.r = rcall.r)
          => InterfaceAddresses(host', rcall'.r) = {}]_<<vars, rvars>>

\* C27 as stated: a setup_interface whose failing commands all answer "The
\* object already exists." returns, having issued one command for every
\* address of its list.
C27_Claim ==
    [][\A connection \in Connections : \A addresses \in SetupArgs :
          (/\ setup_interface(connection, addresses)
           /\ \A i \in 1..Len(rcall'.results) :
                  rcall'.results[i].exit # 0
                  => find(rcall'.results[i].stdout, ObjectExists) >= 0)
          => /\ rcall'.raised = <<>>
             /\ Len(rcall'.issued) = Len(addresses)]_<<vars, rvars>>

\* C28 as stated: delete_vpn_route of an IPv4v6 router issues the IPv6 delete
\* command also when the IPv4 delete command raised.
C28_Claim ==
    [][(/\ rcall'.op = "delete_vpn_route"
        /\ routers[rcall'.r][1].ip_stack = "IPv4v6"
        /\ rcall'.raised # <<>>
        /\ rcall'.issued[1][3] = "ipv4"
        /\ rcall'.raised[1] = rcall'.results[1])
          => "ipv6" \in IssuedFamilies(rcall')]_<<vars, rvars>>

\* the calls that change the registry
Mutators == {"register", "remove", "assign_ip", "set_peer_firewall_settings"}

\* C29 as stated: a register, remove, assign_ip or set_peer_firewall_settings
\* made while the test keeps a document changes nothing of what the test
\* reads in that document.
C29_Claim ==
    [][(held # <<>> /\ call'.op \in Mutators)
          => /\ held' # <<>>
             /\ Read(held'[1], nodes') = Read(held[1], nodes)]_<<vars, rvars, held>>

\* the exceptions of the registry's own checks
NodeErrors == {"DuplicateNodeError", "AddressCollisionError",
               "MissingNodeError"}

\* C30: a register, assign_ip or get_meshmap that raises DuplicateNodeError,
\* AddressCollisionError or MissingNodeError leaves API.nodes as it was: the
\* same ids in the same order, and every Node with the fields it had.
C30_FailuresAreAtomic ==
    [][(/\ call'.op \in {"register", "assign_ip", "get_meshmap"}
        /\ ret'.exc \in NodeErrors)
          => nodes' = nodes]_<<vars, rvars>>

\* assign_ip for a registered node has raised AddressCollisionError, and the
\* node does not hold the address
C30_Witness ==
    /\ call.op = "assign_ip"
    /\ ret.exc = "AddressCollisionError"
    /\ call.id \in Keys(nodes)
    /\ ret.node_id # call.id
    /\ \A i \in 1..Len(Lookup(nodes, call.id).ip_addresses) :
           Lookup(nodes, call.id).ip_addresses[i] # call.address

====
